---- MODULE Spec2Model ----
(***************************************************************************)
(* Model of setup.py of DANC_spm_python: the CustomInstall command.        *)
(*                                                                         *)
(* Spec         CustomInstall.run, one action per blocking step            *)
(* SpecExtract  extract_matlab_runtime on bounded archives / destinations  *)
(* SpecDownload repeated calls of download_file                            *)
(* SpecShell    a shell sourcing the generated env_vars.sh scripts         *)
(***************************************************************************)
EXTENDS Integers, Sequences, FiniteSets, TLC

VARIABLES
    system,      \* platform.system()
    pc,          \* position inside run() / the sub-specification's phase
    err,         \* the exception that propagated out of run(), or "none"
    pending,     \* exception raised inside the try block, held while finally runs
    started,     \* steps of run() that have been entered, in order
    finished,    \* steps of run() that have returned normally, in order
    calls,       \* external processes invoked so far, in order
    invoked,     \* the calls of download_file so far, in order
    ctfExists,   \* build/lib/spm/spm_standalone/spm_standalone.ctf exists
    spmDir,      \* "none" | "top" (build/lib/spm only) | "full" (with spm_standalone/)
    parts,       \* the numbered spm_standalone.ctf.N.part files present
    files,       \* download targets (save_path) that exist
    dirs,        \* directories present under the site-packages directories
    packageDir,  \* local package_dir of install_matlab_runtime
    tree,        \* files below the extraction directory, with their modes
    archive,     \* the files held by the runtime ZIP archive
    extractTo,   \* extract_to, as a list of path components
    mounted,     \* /Volumes/MATLAB_Runtime exists
    appExists,   \* the installer binary exists below the mount point
    actScript,   \* activate.d/env_vars.sh, a list of shell commands
    deactScript, \* deactivate.d/env_vars.sh
    env,         \* the environment of the shell that sources the scripts
    env0,        \* that environment before the first activation
    nAct         \* how many times the activation script has been sourced

vars == <<system, pc, err, pending, started, finished, calls, invoked, ctfExists, spmDir,
          parts, files, dirs, packageDir, tree, archive, extractTo, mounted,
          appExists, actScript, deactScript, env, env0, nAct>>

runVars == <<system, pc, err, pending, started, finished, ctfExists, spmDir,
             parts, dirs, packageDir, mounted, appExists>>
treeVars == <<tree, archive, extractTo>>
scriptVars == <<actScript, deactScript>>
shellVars == <<env, env0, nAct>>

----------------------------------------------------------------------------
(* Bounds *)

NSites == 2          \* length of site.getsitepackages()
NParts == 2          \* how many numbered part files there may be
MaxCalls == 3        \* calls of download_file in SpecDownload
MaxActivations == 2  \* sourcings of the activation script in SpecShell

Sites == 1..NSites

----------------------------------------------------------------------------
(* Strings as sequences of characters, so that endswith and `in' compute. *)

\* str.endswith
EndsWith(s, suf) ==
    /\ Len(suf) <= Len(s)
    /\ SubSeq(s, Len(s) - Len(suf) + 1, Len(s)) = suf

\* `pat in s' for Python strings: pat occurs as a substring of s
Contains(s, pat) ==
    \E i \in 1..(Len(s) - Len(pat) + 1) : SubSeq(s, i, i + Len(pat) - 1) = pat

\* os.path.join of a non-empty list of relative components
RECURSIVE JoinPath(_)
JoinPath(cs) ==
    IF Len(cs) = 1 THEN Head(cs) ELSE Head(cs) \o <<"/">> \o JoinPath(Tail(cs))

S_bin == <<"b", "i", "n">>
S_sbin == <<"s", "b", "i", "n">>
S_lib == <<"l", "i", "b">>
S_pkg == <<"p", "k", "g">>
S_robin == <<"r", "o", "b", "i", "n">>
S_rt == <<"r", "t">>
S_install == <<"i", "n", "s", "t", "a", "l", "l">>
S_dot_sh == <<".", "s", "h">>
S_run_sh == <<"r", "u", "n", ".", "s", "h">>
S_readme == <<"r", "e", "a", "d", "m", "e">>
S_mcr == <<"m", "c", "r">>
S_tool == <<"t", "o", "o", "l">>
S_data == <<"d", "a", "t", "a">>
S_notes == <<"n", "o", "t", "e", "s">>
S_site == <<"s", "i", "t", "e">>
S_spm_standalone ==
    <<"s", "p", "m", "_", "s", "t", "a", "n", "d", "a", "l", "o", "n", "e">>
S_matlab_runtime ==
    <<"m", "a", "t", "l", "a", "b", "_", "r", "u", "n", "t", "i", "m", "e">>

\* A file below the extraction directory: its directory (components relative
\* to extract_to) and its name.
File(d, n) == [dir |-> d, name |-> n]

F_install == File(<<>>, S_install)
F_run_sh == File(<<>>, S_run_sh)
F_readme == File(<<>>, S_readme)
F_bin_mcr == File(<<S_bin>>, S_mcr)
F_sbin_tool == File(<<S_sbin>>, S_tool)
F_lib_data == File(<<S_lib>>, S_data)
F_notes == File(<<>>, S_notes)

CandFiles == {F_install, F_run_sh, F_readme, F_bin_mcr, F_sbin_tool, F_lib_data}
Destinations == {<<S_pkg, S_rt>>, <<S_robin, S_rt>>}
PreTrees == {[f \in {} |-> "rw-------"], [f \in {F_notes} |-> "rw-------"]}

MODE_DEFAULT == "rw-r--r--"   \* what extractall creates a file with
MODE_755 == "rwxr-xr-x"       \* 0o755

EmptyTree == [f \in {} |-> MODE_DEFAULT]

----------------------------------------------------------------------------
(* extract_matlab_runtime *)

\* zip_ref.extractall(extract_to): every member is (re)created with the default
\* mode; files already there and not in the archive stay as they are.
ExtractAll(t, arch) ==
    [f \in (DOMAIN t) \cup arch |-> IF f \in arch THEN MODE_DEFAULT ELSE t[f]]

\* root, as os.walk yields it for the directory of file f
WalkRoot(dest, f) == <<"/">> \o JoinPath(dest \o f.dir)

\* the condition of the chmod
NeedsChmod(dest, f) ==
    \/ EndsWith(f.name, S_dot_sh)
    \/ f.name = S_install
    \/ Contains(WalkRoot(dest, f), S_bin)

\* the os.walk loop over everything below extract_to
ChmodWalk(dest, t) ==
    [f \in DOMAIN t |-> IF NeedsChmod(dest, f) THEN MODE_755 ELSE t[f]]

extract_matlab_runtime(dest, t, arch) == ChmodWalk(dest, ExtractAll(t, arch))

----------------------------------------------------------------------------
(* Paths below the site-packages directories *)

\* os.path.join(site_packages[i], c1, c2, ...)
SitePath(i, rel) == [site |-> i, rel |-> rel]

\* What the operating system makes of the components of a path: "x/.." goes
\* back to where it started (no symbolic links).
RECURSIVE Normalize(_, _)
Normalize(done, rest) ==
    IF rest = <<>> THEN done
    ELSE IF Head(rest) = ".." /\ done # <<>>
         THEN Normalize(SubSeq(done, 1, Len(done) - 1), Tail(rest))
         ELSE Normalize(Append(done, Head(rest)), Tail(rest))

Resolve(p) == [site |-> p.site, rel |-> Normalize(<<>>, p.rel)]

\* os.path.isdir
IsDir(ds, p) == Resolve(p) \in ds

NoDir == SitePath(0, <<>>)

\* get_installed_package_dir: the first site-packages directory that holds a
\* directory of that name, NoDir when it raises FileNotFoundError
get_installed_package_dir(ds, package_name) ==
    IF \E i \in Sites : IsDir(ds, SitePath(i, <<package_name>>))
    THEN LET first == CHOOSE i \in Sites :
                 /\ IsDir(ds, SitePath(i, <<package_name>>))
                 /\ \A j \in Sites : j < i => ~IsDir(ds, SitePath(j, <<package_name>>))
         IN  SitePath(first, <<package_name>>)
    ELSE NoDir

----------------------------------------------------------------------------
(* The env_vars.sh scripts, and a shell that sources them *)

Lit(s) == [lit |-> s]      \* literal text
Ref(v) == [ref |-> v]      \* $v or ${v}
DirText(p) == [dir |-> p]  \* a path interpolated when the script is written

Export(v, word) == [op |-> "export", var |-> v, word |-> word]
Unset(v) == [op |-> "unset", var |-> v, word |-> <<>>]

ShellVars == {"MATLAB_RUNTIME_DIR", "XAPPLRESDIR",
              "LD_LIBRARY_PATH", "_OLD_LD_LIBRARY_PATH",
              "DYLD_LIBRARY_PATH", "_OLD_DYLD_LIBRARY_PATH"}

\* the activation script written for `sys', matlab_runtime_path being `path'
ActivateScript(sys, path) ==
    IF sys = "Linux"
    THEN << Export("MATLAB_RUNTIME_DIR", <<DirText(path)>>),
            Export("_OLD_LD_LIBRARY_PATH", <<Ref("LD_LIBRARY_PATH")>>),
            Export("LD_LIBRARY_PATH",
                   << Ref("MATLAB_RUNTIME_DIR"), Lit("/v96/runtime/glnxa64:"),
                      Ref("MATLAB_RUNTIME_DIR"), Lit("/v96/bin/glnxa64:"),
                      Ref("MATLAB_RUNTIME_DIR"), Lit("/v96/sys/os/glnxa64:"),
                      Ref("LD_LIBRARY_PATH") >>),
            Export("XAPPLRESDIR",
                   << Ref("MATLAB_RUNTIME_DIR"), Lit("/v96/X11/app-defaults") >>) >>
    ELSE << Export("_OLD_DYLD_LIBRARY_PATH", <<Ref("DYLD_LIBRARY_PATH")>>),
            Export("DYLD_LIBRARY_PATH",
                   << Lit("/Applications/MATLAB/MATLAB_Runtime/v96/runtime/maci64:"),
                      Lit("/Applications/MATLAB/MATLAB_Runtime/v96/sys/os/maci64:"),
                      Lit("/Applications/MATLAB/MATLAB_Runtime/v96/bin/maci64:"),
                      Lit("/Applications/MATLAB/MATLAB_Runtime/v96/extern/bin/maci64:"),
                      Ref("DYLD_LIBRARY_PATH") >>) >>

\* a deactivation script that forgets the display-resources variable
DeactivateScript_KeepsXappl(sys) ==
    IF sys = "Linux"
    THEN << Unset("MATLAB_RUNTIME_DIR"),
            Export("LD_LIBRARY_PATH", <<Ref("_OLD_LD_LIBRARY_PATH")>>),
            Unset("_OLD_LD_LIBRARY_PATH") >>
    ELSE << Export("DYLD_LIBRARY_PATH", <<Ref("_OLD_DYLD_LIBRARY_PATH")>>),
            Unset("_OLD_DYLD_LIBRARY_PATH") >>

\* the deactivation script written for `sys'
DeactivateScript(sys) ==
    IF sys = "Linux"
    THEN << Unset("MATLAB_RUNTIME_DIR"),
            Export("LD_LIBRARY_PATH", <<Ref("_OLD_LD_LIBRARY_PATH")>>),
            Unset("_OLD_LD_LIBRARY_PATH"),
            Unset("XAPPLRESDIR") >>
    ELSE << Export("DYLD_LIBRARY_PATH", <<Ref("_OLD_DYLD_LIBRARY_PATH")>>),
            Unset("_OLD_DYLD_LIBRARY_PATH") >>

NoScript == <<>>

\* A shell variable: unset, or set to a text (a list of pieces, <<>> being "").
UnsetVal == [set |-> FALSE, val |-> <<>>]
SetVal(v) == [set |-> TRUE, val |-> v]

\* "$v" inside double quotes: the value, or nothing when v is unset
ExpandPart(e, part) ==
    IF "ref" \in DOMAIN part THEN e[part.ref].val ELSE <<part>>

RECURSIVE Expand(_, _)
Expand(e, word) ==
    IF word = <<>> THEN <<>> ELSE ExpandPart(e, Head(word)) \o Expand(e, Tail(word))

\* one command of a script
Exec(e, c) ==
    IF c.op = "export"
    THEN [e EXCEPT ![c.var] = SetVal(Expand(e, c.word))]
    ELSE [e EXCEPT ![c.var] = UnsetVal]

\* `source script'
RECURSIVE Source(_, _)
Source(e, script) ==
    IF script = <<>> THEN e ELSE Source(Exec(e, Head(script)), Tail(script))

LibVar(sys) == IF sys = "Linux" THEN "LD_LIBRARY_PATH" ELSE "DYLD_LIBRARY_PATH"
OldVar(sys) == IF sys = "Linux" THEN "_OLD_LD_LIBRARY_PATH" ELSE "_OLD_DYLD_LIBRARY_PATH"

\* the environments the shell may start from
PriorValues == {UnsetVal, SetVal(<<>>), SetVal(<<Lit("/usr/lib")>>)}
PriorEnvs(sys) ==
    {[v \in ShellVars |->
        IF v = LibVar(sys) THEN lib
        ELSE IF v = "MATLAB_RUNTIME_DIR" THEN root
        ELSE IF v = "XAPPLRESDIR" THEN xres
        ELSE UnsetVal] :
     lib \in PriorValues,
     root \in {UnsetVal, SetVal(<<Lit("/opt/mcr")>>)},
     xres \in {UnsetVal, SetVal(<<Lit("/usr/share/X11")>>)}}

NoEnv == [v \in ShellVars |-> UnsetVal]

----------------------------------------------------------------------------
(* External processes *)

Call(tool, a, b, d, ok) == [tool |-> tool, a |-> a, b |-> b, dir |-> d, ok |-> ok]

HasCall(cs, tool) == \E i \in DOMAIN cs : cs[i].tool = tool

\* subprocess.check_call: a non-zero exit status raises
CheckCall(ok) == IF ok THEN "none" ELSE "CalledProcessError"

----------------------------------------------------------------------------
(* download_file *)

URL_GLNXA64 == "https://ssd.mathworks.com/.../glnxa64/MATLAB_Runtime_R2019a_Update_9_glnxa64.zip"
URL_MACI64 == "https://ssd.mathworks.com/.../maci64/MATLAB_Runtime_R2019a_Update_9_maci64.dmg.zip"
ZIP_GLNXA64 == "MATLAB_Runtime_R2019a_Update_9_glnxa64.zip"
ZIP_MACI64 == "MATLAB_Runtime_R2019a_Update_9_maci64.dmg.zip"

Urls == {URL_GLNXA64, URL_MACI64}
SavePaths == {ZIP_GLNXA64, ZIP_MACI64}

\* a downloader that transfers whether or not the file is there
NeedsTransfer_Always(fs, save_path) == TRUE

\* if not os.path.exists(save_path)
NeedsTransfer(fs, save_path) == save_path \notin fs

\* download_file(url, save_path); `e' is the exception it raises, "none" if none.
\* A transfer that exits 0 has written save_path; one that fails may leave a
\* partial file behind.
download_file(url, save_path, e) ==
    /\ invoked' = Append(invoked, [url |-> url, path |-> save_path])
    /\ IF NeedsTransfer(files, save_path)
       THEN \E ok \in BOOLEAN :
              /\ calls' = Append(calls, Call("curl", url, save_path, NoDir, ok))
              /\ e = CheckCall(ok)
              /\ IF ok THEN files' = files \cup {save_path}
                       ELSE files' \in {files, files \cup {save_path}}
       ELSE /\ e = "none"
            /\ UNCHANGED <<calls, files>>

----------------------------------------------------------------------------
(* SpecExtract: extract_matlab_runtime on its own *)

IdleRun ==
    /\ err = "none" /\ pending = "none"
    /\ started = <<>> /\ finished = <<>>
    /\ ctfExists = FALSE /\ spmDir = "none" /\ parts = {}
    /\ dirs = {} /\ packageDir = NoDir
    /\ mounted = FALSE /\ appExists = FALSE

IdleShell == env = NoEnv /\ env0 = NoEnv /\ nAct = 0

InitExtract ==
    /\ system = "Linux"
    /\ pc = "extract"
    /\ IdleRun /\ IdleShell
    /\ calls = <<>> /\ invoked = <<>> /\ files = {}
    /\ actScript = NoScript /\ deactScript = NoScript
    /\ tree \in PreTrees
    /\ archive \in SUBSET CandFiles
    /\ extractTo \in Destinations

ExtractMatlabRuntime ==
    /\ pc = "extract"
    /\ pc' = "extracted"
    /\ tree' = extract_matlab_runtime(extractTo, tree, archive)
    /\ UNCHANGED <<system, err, pending, started, finished, calls, invoked,
                   ctfExists, spmDir, parts, files, dirs, packageDir, archive,
                   extractTo, mounted, appExists, scriptVars, shellVars>>

NextExtract == ExtractMatlabRuntime

SpecExtract == InitExtract /\ [][NextExtract]_vars

----------------------------------------------------------------------------
(* SpecDownload: download_file called again and again *)

InitDownload ==
    /\ system = "Linux"
    /\ pc = "download_file"
    /\ IdleRun /\ IdleShell
    /\ calls = <<>> /\ invoked = <<>>
    /\ files \in SUBSET SavePaths
    /\ actScript = NoScript /\ deactScript = NoScript
    /\ tree = EmptyTree /\ archive = {} /\ extractTo = <<>>

DownloadFile ==
    /\ pc = "download_file"
    /\ Len(invoked) < MaxCalls
    /\ \E url \in Urls, save_path \in SavePaths, e \in {"none", "CalledProcessError"} :
         download_file(url, save_path, e)
    /\ UNCHANGED <<runVars, treeVars, scriptVars, shellVars>>

NextDownload == DownloadFile

SpecDownload == InitDownload /\ [][NextDownload]_vars

----------------------------------------------------------------------------
(* SpecShell: a shell sources the scripts set_environment_variables wrote *)

InitShell ==
    /\ system \in {"Linux", "Darwin"}
    /\ pc = "shell"
    /\ IdleRun
    /\ calls = <<>> /\ invoked = <<>> /\ files = {}
    /\ tree = EmptyTree /\ archive = {} /\ extractTo = <<>>
    /\ \E i \in Sites : actScript = ActivateScript(system, SitePath(i, <<"MATLAB_Runtime">>))
    /\ deactScript = DeactivateScript(system)
    /\ env0 \in PriorEnvs(system)
    /\ env = env0
    /\ nAct = 0

SourceActivate ==
    /\ pc \in {"shell", "active"}
    /\ nAct < MaxActivations
    /\ env' = Source(env, actScript)
    /\ nAct' = nAct + 1
    /\ pc' = "active"
    /\ UNCHANGED <<system, err, pending, started, finished, calls, invoked,
                   ctfExists, spmDir, parts, files, dirs, packageDir, treeVars,
                   mounted, appExists, scriptVars, env0>>

SourceDeactivate ==
    /\ pc = "active"
    /\ env' = Source(env, deactScript)
    /\ pc' = "deactivated"
    /\ UNCHANGED <<system, err, pending, started, finished, calls, invoked,
                   ctfExists, spmDir, parts, files, dirs, packageDir, treeVars,
                   mounted, appExists, scriptVars, env0, nAct>>

NextShell == SourceActivate \/ SourceDeactivate

SpecShell == InitShell /\ [][NextShell]_vars

----------------------------------------------------------------------------
(* Spec: CustomInstall.run *)

\* a run() that calls the standard install before install_spm
RunOrder_InstallFirst ==
    <<"install", "install_spm", "install_matlab_runtime", "set_environment_variables">>

\* the statements of run(), in order
RunOrder ==
    <<"install_spm", "install", "install_matlab_runtime", "set_environment_variables">>

\* where run() goes when the step it is in returns
AfterStep(step) ==
    LET i == CHOOSE k \in DOMAIN RunOrder : RunOrder[k] = step
    IN  IF i = Len(RunOrder) THEN "done" ELSE RunOrder[i + 1]

Enter(step) == started' = Append(started, step)
Return(step) == /\ finished' = Append(finished, step)
                /\ pc' = AfterStep(step)
Raise(e) == /\ err' = e
            /\ pc' = "failed"
            /\ UNCHANGED finished

\* the marker file is missing, so the archive has to be assembled
AssemblyNeeded_Always(ctf) == TRUE

AssemblyNeeded(ctf) == ~ctf

PartFiles == 1..NParts
SiteDirs == {SitePath(i, <<n>>) : i \in Sites, n \in {"spm_standalone", "MATLAB_Runtime"}}
MainArchives == {{F_install, F_bin_mcr, F_readme}, {F_bin_mcr, F_readme}}
MainPreTrees == {EmptyTree, [f \in {F_install} |-> MODE_DEFAULT]}
Platforms == {"Linux", "Darwin", "Windows"}

Init ==
    /\ system \in Platforms
    /\ pc = RunOrder[1]
    /\ err = "none" /\ pending = "none"
    /\ started = <<>> /\ finished = <<>>
    /\ calls = <<>> /\ invoked = <<>>
    /\ spmDir \in {"none", "top", "full"}
    /\ ctfExists \in (IF spmDir = "full" THEN BOOLEAN ELSE {FALSE})
    /\ parts \in (IF spmDir = "full" THEN SUBSET PartFiles ELSE {{}})
    /\ files \in SUBSET SavePaths
    /\ dirs \in SUBSET SiteDirs
    /\ packageDir = NoDir
    /\ tree \in MainPreTrees
    /\ archive = {} /\ extractTo = <<>>
    /\ mounted = FALSE /\ appExists = FALSE
    /\ actScript = NoScript /\ deactScript = NoScript
    /\ IdleShell

\* install_spm, lines 49-53: the marker test, chdir and the assembly tool
InstallSpmAssemble ==
    /\ pc = "install_spm"
    /\ Enter("install_spm")
    /\ IF AssemblyNeeded(ctfExists)
       THEN IF spmDir # "full"
            THEN /\ Raise("FileNotFoundError")       \* os.chdir
                 /\ UNCHANGED <<calls, ctfExists>>
            ELSE \E ok \in BOOLEAN :
                   /\ calls' = Append(calls, Call("bysp", "c", "spm_standalone.ctf", NoDir, ok))
                   /\ IF CheckCall(ok) = "none"
                      THEN /\ pc' = "remove_parts"
                           /\ ctfExists' = TRUE
                           /\ UNCHANGED <<err, finished>>
                      ELSE /\ Raise(CheckCall(ok))
                           /\ UNCHANGED ctfExists
       ELSE /\ pc' = "spm_setup"
            /\ UNCHANGED <<err, finished, calls, ctfExists>>
    /\ UNCHANGED <<system, pending, invoked, spmDir, parts, files, dirs, packageDir,
                   treeVars, mounted, appExists, scriptVars, shellVars>>

\* install_spm, lines 54-56: glob and remove the part files
RemoveParts ==
    /\ pc = "remove_parts"
    /\ parts' = {}
    /\ pc' = "spm_setup"
    /\ UNCHANGED <<system, err, pending, started, finished, calls, invoked, ctfExists,
                   spmDir, files, dirs, packageDir, treeVars, mounted, appExists,
                   scriptVars, shellVars>>

\* install_spm, lines 57-58: chdir(spm_dir) and the package's own setup.py install,
\* which may put spm_standalone into one of the site-packages directories
SpmSetup ==
    /\ pc = "spm_setup"
    /\ IF spmDir = "none"
       THEN /\ Raise("FileNotFoundError")
            /\ UNCHANGED <<calls, dirs>>
       ELSE \E ok \in BOOLEAN :
              /\ calls' = Append(calls, Call("python", "setup.py", "install", NoDir, ok))
              /\ IF CheckCall(ok) = "none"
                 THEN /\ pc' = "spm_rmtree"
                      /\ \E into \in SUBSET {SitePath(i, <<"spm_standalone">>) : i \in Sites} :
                           /\ Cardinality(into) <= 1
                           /\ dirs' = dirs \cup into
                      /\ UNCHANGED <<err, finished>>
                 ELSE /\ Raise(CheckCall(ok))
                      /\ UNCHANGED dirs
    /\ UNCHANGED <<system, pending, started, invoked, ctfExists, spmDir, parts, files,
                   packageDir, treeVars, mounted, appExists, scriptVars, shellVars>>

\* install_spm, lines 59-60: chdir(base_dir) and rmtree(spm_dir)
SpmRmtree ==
    /\ pc = "spm_rmtree"
    /\ spmDir' = "none"
    /\ ctfExists' = FALSE
    /\ parts' = {}
    /\ Return("install_spm")
    /\ UNCHANGED <<system, err, pending, started, calls, invoked, files, dirs,
                   packageDir, treeVars, mounted, appExists, scriptVars, shellVars>>

\* super().run(): the standard setuptools install
SuperRun ==
    /\ pc = "install"
    /\ Enter("install")
    /\ \E ok \in BOOLEAN :
         IF ok THEN /\ Return("install")
                    /\ UNCHANGED err
               ELSE Raise("DistutilsError")
    /\ UNCHANGED <<system, pending, calls, invoked, ctfExists, spmDir, parts, files,
                   dirs, packageDir, treeVars, mounted, appExists, scriptVars, shellVars>>

----------------------------------------------------------------------------
(* install_matlab_runtime *)

Supported(sys) == sys \in {"Linux", "Darwin"}

\* matlab_runtime_zip
RuntimeZip(sys) == IF sys = "Linux" THEN ZIP_GLNXA64 ELSE ZIP_MACI64

\* a dispatch that takes the Linux archive on every platform
RuntimeUrl_AlwaysLinux(sys) == URL_GLNXA64

\* matlab_download_url
RuntimeUrl(sys) == IF sys = "Linux" THEN URL_GLNXA64 ELSE URL_MACI64

\* lines 102-120: the platform test
MrDispatch ==
    /\ pc = "install_matlab_runtime"
    /\ Enter("install_matlab_runtime")
    /\ IF Supported(system)
       THEN /\ pc' = "download"
            /\ UNCHANGED <<err, finished>>
       ELSE Raise("OSError")
    /\ UNCHANGED <<system, pending, calls, invoked, ctfExists, spmDir, parts, files,
                   dirs, packageDir, treeVars, mounted, appExists, scriptVars, shellVars>>

\* line 123: self.download_file(matlab_download_url, matlab_runtime_zip)
Download ==
    /\ pc = "download"
    /\ \E e \in {"none", "CalledProcessError"} :
         /\ download_file(RuntimeUrl(system), RuntimeZip(system), e)
         /\ IF e = "none"
            THEN /\ pc' = IF system = "Linux" THEN "linux_locate" ELSE "darwin_unzip"
                 /\ UNCHANGED <<err, finished>>
            ELSE Raise(e)
    /\ UNCHANGED <<system, pending, started, ctfExists, spmDir, parts, dirs, packageDir,
                   treeVars, mounted, appExists, scriptVars, shellVars>>

\* line 127: package_dir = self.get_installed_package_dir('spm_standalone')
LinuxLocate ==
    /\ pc = "linux_locate"
    /\ LET d == get_installed_package_dir(dirs, "spm_standalone")
       IN  IF d = NoDir
           THEN /\ Raise("FileNotFoundError")
                /\ UNCHANGED packageDir
           ELSE /\ packageDir' = d
                /\ pc' = "linux_extract"
                /\ UNCHANGED <<err, finished>>
    /\ UNCHANGED <<system, pending, started, calls, invoked, ctfExists, spmDir, parts,
                   files, dirs, treeVars, mounted, appExists, scriptVars, shellVars>>

\* lines 128-129: extract into package_dir/matlab_runtime; what was downloaded
\* may not be a ZIP archive at all
LinuxExtract ==
    /\ pc = "linux_extract"
    /\ \/ /\ Raise("BadZipFile")
          /\ UNCHANGED treeVars
       \/ \E a \in MainArchives :
            /\ archive' = a
            /\ extractTo' = <<S_site, S_spm_standalone, S_matlab_runtime>>
            /\ tree' = extract_matlab_runtime(extractTo', tree, a)
            /\ pc' = "linux_check"
            /\ UNCHANGED <<err, finished>>
    /\ UNCHANGED <<system, pending, started, calls, invoked, ctfExists, spmDir, parts,
                   files, dirs, packageDir, mounted, appExists, scriptVars, shellVars>>

\* an installer step that does not look for the script
InstallScriptExists_Unchecked(t) == TRUE

\* os.path.exists(install_script)
InstallScriptExists(t) == F_install \in DOMAIN t

\* lines 131-133
LinuxCheckScript ==
    /\ pc = "linux_check"
    /\ IF InstallScriptExists(tree)
       THEN /\ pc' = "linux_installer"
            /\ UNCHANGED <<err, finished>>
       ELSE Raise("FileNotFoundError")
    /\ UNCHANGED <<system, pending, started, calls, invoked, ctfExists, spmDir, parts,
                   files, dirs, packageDir, treeVars, mounted, appExists, scriptVars,
                   shellVars>>

\* destination_dir = os.path.join(package_dir, '../MATLAB_Runtime')
DestinationDir(package_dir) ==
    SitePath(package_dir.site, package_dir.rel \o <<"..", "MATLAB_Runtime">>)

\* lines 135-139: the native installer, which creates its destination folder
LinuxInstaller ==
    /\ pc = "linux_installer"
    /\ \E ok \in BOOLEAN :
         /\ calls' = Append(calls, Call("install", "-mode silent -agreeToLicense yes",
                                        "-destinationFolder", DestinationDir(packageDir), ok))
         /\ IF CheckCall(ok) = "none"
            THEN /\ pc' = "linux_cleanup"
                 /\ dirs' = IF ok THEN dirs \cup {Resolve(DestinationDir(packageDir))}
                                  ELSE dirs
                 /\ UNCHANGED <<err, finished>>
            ELSE /\ Raise(CheckCall(ok))
                 /\ UNCHANGED dirs
    /\ UNCHANGED <<system, pending, started, invoked, ctfExists, spmDir, parts, files,
                   packageDir, treeVars, mounted, appExists, scriptVars, shellVars>>

\* line 142: shutil.rmtree(matlab_runtime_extract_dir)
LinuxCleanup ==
    /\ pc = "linux_cleanup"
    /\ tree' = EmptyTree
    /\ Return("install_matlab_runtime")
    /\ UNCHANGED <<system, err, pending, started, calls, invoked, ctfExists, spmDir,
                   parts, files, dirs, packageDir, archive, extractTo, mounted,
                   appExists, scriptVars, shellVars>>

\* line 146: unzip the dmg.zip
DarwinUnzip ==
    /\ pc = "darwin_unzip"
    /\ \E ok \in BOOLEAN :
         /\ calls' = Append(calls, Call("unzip", RuntimeZip(system), "", NoDir, ok))
         /\ IF CheckCall(ok) = "none"
            THEN /\ pc' = "darwin_attach"
                 /\ UNCHANGED <<err, finished>>
            ELSE Raise(CheckCall(ok))
    /\ UNCHANGED <<system, pending, started, invoked, ctfExists, spmDir, parts, files,
                   dirs, packageDir, treeVars, mounted, appExists, scriptVars, shellVars>>

\* line 153, the first statement of the try block: hdiutil attach. What the
\* image holds, and whether the mount point shows up, is the system's business.
DarwinAttach ==
    /\ pc = "darwin_attach"
    /\ \E ok \in BOOLEAN :
         /\ calls' = Append(calls, Call("hdiutil", "attach", "/Volumes/MATLAB_Runtime", NoDir, ok))
         /\ IF CheckCall(ok) = "none"
            THEN /\ pc' = "darwin_check_mount"
                 /\ mounted' \in (IF ok THEN BOOLEAN ELSE {FALSE})
                 /\ appExists' \in (IF mounted' THEN BOOLEAN ELSE {FALSE})
                 /\ UNCHANGED pending
            ELSE /\ pending' = CheckCall(ok)
                 /\ pc' = "darwin_detach"
                 /\ UNCHANGED <<mounted, appExists>>
    /\ UNCHANGED <<system, err, started, finished, invoked, ctfExists, spmDir, parts,
                   files, dirs, packageDir, treeVars, scriptVars, shellVars>>

\* lines 156-157
DarwinCheckMount ==
    /\ pc = "darwin_check_mount"
    /\ IF mounted
       THEN /\ pc' = "darwin_check_app"
            /\ UNCHANGED pending
       ELSE /\ pending' = "RuntimeError"
            /\ pc' = "darwin_detach"
    /\ UNCHANGED <<system, err, started, finished, calls, invoked, ctfExists, spmDir,
                   parts, files, dirs, packageDir, treeVars, mounted, appExists,
                   scriptVars, shellVars>>

\* an installer step that does not look for the binary
InstallerAppExists_Unchecked(app) == TRUE

\* os.path.exists(installer_app)
InstallerAppExists(app) == app

\* lines 160-163
DarwinCheckApp ==
    /\ pc = "darwin_check_app"
    /\ IF InstallerAppExists(appExists)
       THEN /\ pc' = "darwin_installer"
            /\ UNCHANGED pending
       ELSE /\ pending' = "FileNotFoundError"
            /\ pc' = "darwin_detach"
    /\ UNCHANGED <<system, err, started, finished, calls, invoked, ctfExists, spmDir,
                   parts, files, dirs, packageDir, treeVars, mounted, appExists,
                   scriptVars, shellVars>>

\* lines 166-171: sudo InstallForMacOSX
DarwinInstaller ==
    /\ pc = "darwin_installer"
    /\ \E ok \in BOOLEAN :
         /\ calls' = Append(calls, Call("InstallForMacOSX", "-mode silent -agreeToLicense yes",
                                        "/Applications/MATLAB/MATLAB_Runtime/v96", NoDir, ok))
         /\ pending' = CheckCall(ok)
    /\ pc' = "darwin_detach"
    /\ UNCHANGED <<system, err, started, finished, invoked, ctfExists, spmDir, parts,
                   files, dirs, packageDir, treeVars, mounted, appExists, scriptVars,
                   shellVars>>

\* lines 172-174, the finally block: hdiutil detach, then the exception the try
\* block raised, if any, goes on; a failing detach raises in its place
DarwinDetach ==
    /\ pc = "darwin_detach"
    /\ \E ok \in BOOLEAN :
         /\ calls' = Append(calls, Call("hdiutil", "detach", "/Volumes/MATLAB_Runtime", NoDir, ok))
         /\ mounted' = IF ok THEN FALSE ELSE mounted
         /\ appExists' = IF ok THEN FALSE ELSE appExists
         /\ IF CheckCall(ok) # "none"
            THEN Raise(CheckCall(ok))
            ELSE IF pending # "none"
                 THEN Raise(pending)
                 ELSE /\ Return("install_matlab_runtime")
                      /\ UNCHANGED err
    /\ pending' = "none"
    /\ UNCHANGED <<system, started, invoked, ctfExists, spmDir, parts, files, dirs,
                   packageDir, treeVars, scriptVars, shellVars>>

----------------------------------------------------------------------------
(* set_environment_variables *)

SetEnvironmentVariables ==
    /\ pc = "set_environment_variables"
    /\ Enter("set_environment_variables")
    /\ IF system = "Linux"
       THEN LET matlab_runtime_path == get_installed_package_dir(dirs, "MATLAB_Runtime")
            IN  IF matlab_runtime_path = NoDir
                THEN /\ Raise("FileNotFoundError")
                     /\ UNCHANGED scriptVars
                ELSE /\ actScript' = ActivateScript(system, matlab_runtime_path)
                     /\ deactScript' = DeactivateScript(system)
                     /\ Return("set_environment_variables")
                     /\ UNCHANGED err
       ELSE IF system = "Darwin"
       THEN /\ actScript' = ActivateScript(system, NoDir)
            /\ deactScript' = DeactivateScript(system)
            /\ Return("set_environment_variables")
            /\ UNCHANGED err
       ELSE /\ Raise("OSError")
            /\ UNCHANGED scriptVars
    /\ UNCHANGED <<system, pending, calls, invoked, ctfExists, spmDir, parts, files,
                   dirs, packageDir, treeVars, mounted, appExists, shellVars>>

Next ==
    \/ InstallSpmAssemble \/ RemoveParts \/ SpmSetup \/ SpmRmtree
    \/ SuperRun
    \/ MrDispatch \/ Download
    \/ LinuxLocate \/ LinuxExtract \/ LinuxCheckScript \/ LinuxInstaller \/ LinuxCleanup
    \/ DarwinUnzip \/ DarwinAttach \/ DarwinCheckMount \/ DarwinCheckApp
    \/ DarwinInstaller \/ DarwinDetach
    \/ SetEnvironmentVariables

Spec == Init /\ [][Next]_vars

----------------------------------------------------------------------------
(* Properties *)

IsPrefix(a, b) == Len(a) <= Len(b) /\ SubSeq(b, 1, Len(a)) = a
Range(q) == {q[i] : i \in DOMAIN q}
Last(q) == q[Len(q)]
Appended(tool) == Len(calls') = Len(calls) + 1 /\ Last(calls').tool = tool
IsAttach(c) == c.tool = "hdiutil" /\ c.a = "attach"
IsDetach(c) == c.tool = "hdiutil" /\ c.a = "detach"
ScriptsWritten == actScript # NoScript \/ deactScript # NoScript

C2_NoTransferAfterSuccess ==
    \A i, j \in DOMAIN calls :
        (i < j /\ calls[i].tool = "curl" /\ calls[i].ok /\ calls[j].tool = "curl")
            => calls[j].b # calls[i].b

\* a call of download_file: one transfer if the file is missing, none otherwise
C2_OncePerMissingFile ==
    invoked' # invoked =>
        LET c == Last(invoked')
        IN  IF c.path \in files
            THEN calls' = calls
            ELSE /\ Appended("curl")
                 /\ Last(calls').a = c.url
                 /\ Last(calls').b = c.path
                 /\ SubSeq(calls', 1, Len(calls)) = calls

\* C2: a call download_file(url, save_path) runs the transfer tool exactly once,
\* for that url and path, when save_path does not exist, and not at all when it
\* exists; after a transfer to a path has succeeded there is never another
\* transfer to that path.
C2_Idempotent == [](C2_NoTransferAfterSuccess) /\ [][C2_OncePerMissingFile]_vars

C2_Witness ==
    /\ Len(invoked) = 3
    /\ invoked[1].path = invoked[2].path /\ invoked[2].path = invoked[3].path
    /\ Len(calls) = 1
    /\ calls[1].ok

\* C3: on Linux install_matlab_runtime asks for the glnxa64 archive and runs only
\* the extracted install script; on Darwin it asks for the maci64 dmg archive and
\* runs only unzip, hdiutil and the bundled installer; on any other platform it
\* raises OSError with no download, extraction or installer behind it.
C3_PlatformDispatch ==
    /\ \A i \in DOMAIN invoked :
         invoked[i] = IF system = "Linux"
                      THEN [url |-> URL_GLNXA64, path |-> ZIP_GLNXA64]
                      ELSE [url |-> URL_MACI64, path |-> ZIP_MACI64]
    /\ \A i \in DOMAIN calls :
         /\ calls[i].tool = "curl" => calls[i].a = invoked[1].url /\ calls[i].b = invoked[1].path
         /\ calls[i].tool = "install" => system = "Linux"
         /\ calls[i].tool \in {"unzip", "hdiutil", "InstallForMacOSX"} => system = "Darwin"
    /\ ("install_matlab_runtime" \in Range(finished) /\ system = "Linux")
         => HasCall(calls, "install")
    /\ ("install_matlab_runtime" \in Range(finished) /\ system = "Darwin")
         => HasCall(calls, "InstallForMacOSX") /\ \E i \in DOMAIN calls : IsAttach(calls[i])
    /\ ("install_matlab_runtime" \in Range(started) /\ system \notin {"Linux", "Darwin"})
         => /\ err = "OSError"
            /\ invoked = <<>>
            /\ extractTo = <<>>
            /\ \A i \in DOMAIN calls :
                 calls[i].tool \notin {"curl", "install", "unzip", "hdiutil", "InstallForMacOSX"}

C3_Witness ==
    /\ system = "Windows"
    /\ "install_matlab_runtime" \in Range(started)
    /\ err = "OSError"

\* the files whose mode is to be restored
Designated(dest, f) ==
    \/ EndsWith(f.name, S_dot_sh)
    \/ f.name = S_install
    \/ S_bin \in Range(dest \o f.dir)

\* C4: after extract_matlab_runtime every extracted file that ends in .sh, is
\* named install or lies under a directory named bin has mode 0o755, and every
\* other extracted file still has the mode extraction gave it.
C4_PermissionsRestored ==
    pc = "extracted" =>
        \A f \in archive :
            tree[f] = IF Designated(extractTo, f) THEN MODE_755 ELSE MODE_DEFAULT

\* past the test of lines 132-133 with no install file in the directory
C5_MissingScriptState ==
    ( /\ system = "Linux"
      /\ extractTo # <<>>
      /\ F_install \notin DOMAIN tree
      /\ pc # "linux_check"
      /\ "install_matlab_runtime" \notin Range(finished) )
    => /\ err = "FileNotFoundError"
       /\ ~HasCall(calls, "install")

\* a step that invokes the native installer
C5_InstallerStep == Appended("install") => F_install \in DOMAIN tree

\* C5: on Linux, when the extraction directory holds no file install after the
\* extraction, install_matlab_runtime ends in FileNotFoundError with the native
\* installer never invoked; the installer is invoked only while that file exists.
C5_MissingScript == [](C5_MissingScriptState) /\ [][C5_InstallerStep]_vars

C5_Witness ==
    /\ system = "Linux"
    /\ extractTo # <<>>
    /\ F_install \notin DOMAIN tree
    /\ err = "FileNotFoundError"

ExportedVars(script) == {script[i].var : i \in {k \in DOMAIN script : script[k].op = "export"}}
UnsetVars(script) == {script[i].var : i \in {k \in DOMAIN script : script[k].op = "unset"}}
TouchedVars(script) == {script[i].var : i \in DOMAIN script}

\* C6: activation (once or several times) followed by deactivation leaves the
\* library-search-path variable as it was before, unset if it was unset, and
\* leaves every other variable the activation script sets unset.
C6_RoundTrip ==
    pc = "deactivated" =>
        /\ env[LibVar(system)] = env0[LibVar(system)]
        /\ \A v \in ExportedVars(actScript) \ {LibVar(system)} : ~env[v].set

\* the activation script saves the library search path before extending it
SavesPrevious(script, sys) ==
    \E i, j \in DOMAIN script :
        /\ i < j
        /\ script[i] = Export(OldVar(sys), <<Ref(LibVar(sys))>>)
        /\ script[j].op = "export" /\ script[j].var = LibVar(sys)
        /\ Last(script[j].word) = Ref(LibVar(sys))
        /\ \A k \in DOMAIN script : k < j => script[k].var # LibVar(sys)

\* the deactivation script puts the saved value back and unsets the rest
UndoesActivation(act, deact, sys) ==
    /\ TouchedVars(deact) = ExportedVars(act)
    /\ ExportedVars(deact) = {LibVar(sys)}
    /\ UnsetVars(deact) = ExportedVars(act) \ {LibVar(sys)}
    /\ \E i, j \in DOMAIN deact :
         /\ i < j
         /\ deact[i] = Export(LibVar(sys), <<Ref(OldVar(sys))>>)
         /\ deact[j] = Unset(OldVar(sys))

\* C7, as stated: on both platforms the activation script sets a runtime-root
\* variable and the library search path (saving its previous value), on Linux
\* also the display-resources variable, and the deactivation script undoes
\* exactly the variables the activation script set.
C7_AsStated ==
    pc = "done" =>
        /\ "MATLAB_RUNTIME_DIR" \in ExportedVars(actScript)
        /\ LibVar(system) \in ExportedVars(actScript)
        /\ SavesPrevious(actScript, system)
        /\ system = "Linux" => "XAPPLRESDIR" \in ExportedVars(actScript)
        /\ UndoesActivation(actScript, deactScript, system)

\* C7, amended: the runtime-root variable is set on Linux only. On Linux the
\* activation script sets MATLAB_RUNTIME_DIR (to the located directory),
\* _OLD_LD_LIBRARY_PATH, LD_LIBRARY_PATH and XAPPLRESDIR; on Darwin it sets
\* _OLD_DYLD_LIBRARY_PATH and DYLD_LIBRARY_PATH and nothing else; on both the
\* previous search path is saved first and the deactivation script undoes
\* exactly the variables the activation script set.
C7_ScriptVariables ==
    pc = "done" =>
        /\ system = "Linux" =>
             /\ ExportedVars(actScript) = {"MATLAB_RUNTIME_DIR", "_OLD_LD_LIBRARY_PATH",
                                           "LD_LIBRARY_PATH", "XAPPLRESDIR"}
             /\ actScript[1] = Export("MATLAB_RUNTIME_DIR",
                    <<DirText(get_installed_package_dir(dirs, "MATLAB_Runtime"))>>)
        /\ system = "Darwin" =>
             ExportedVars(actScript) = {"_OLD_DYLD_LIBRARY_PATH", "DYLD_LIBRARY_PATH"}
        /\ UnsetVars(actScript) = {}
        /\ SavesPrevious(actScript, system)
        /\ UndoesActivation(actScript, deactScript, system)

C7_Witness ==
    /\ pc = "done"
    /\ system = "Darwin"
    /\ Len(actScript) = 2 /\ Len(deactScript) = 2

BySpSucceeded(cs) == \E i \in DOMAIN cs : cs[i].tool = "bysp" /\ cs[i].ok
BySpFailed(cs) == \E i \in DOMAIN cs : cs[i].tool = "bysp" /\ ~cs[i].ok

\* when the assembly tool has failed: nothing deleted, no install script, build
\* directory still there
C8_FailureLeavesAll ==
    BySpFailed(calls') =>
        /\ parts' = parts
        /\ spmDir' = spmDir
        /\ ~HasCall(calls', "python")
        /\ pc' = "failed"

\* C8, as stated: the assembly tool is invoked iff the marker file does not
\* exist; part files disappear only after the tool has exited successfully; a
\* failing tool leaves the parts, the install script and the build directory.
C8_AsStated ==
    [][ /\ Appended("bysp") => pc = "install_spm"
        /\ (pc = "install_spm" /\ pc' # pc) => (Appended("bysp") <=> ~ctfExists)
        /\ parts' # parts => BySpSucceeded(calls)
        /\ C8_FailureLeavesAll ]_vars

\* C8, amended: the tool is invoked only if the marker file does not exist, and
\* then exactly when the spm_standalone build directory exists (otherwise the
\* chdir raises first); part files are removed one by one only after the tool
\* has exited successfully, and otherwise disappear only with the final removal
\* of the build directory, after the package's install script has succeeded; a
\* failing tool leaves the parts, the install script and the build directory.
C8_Assembly ==
    [][ /\ Appended("bysp") => pc = "install_spm"
        /\ (pc = "install_spm" /\ pc' # pc) =>
              (Appended("bysp") <=> (~ctfExists /\ spmDir = "full"))
        /\ parts' # parts =>
              \/ BySpSucceeded(calls) /\ pc \in {"remove_parts", "spm_rmtree"}
              \/ /\ pc = "spm_rmtree" /\ spmDir' = "none"
                 /\ \E i \in DOMAIN calls : calls[i].tool = "python" /\ calls[i].ok
        /\ C8_FailureLeavesAll ]_vars

C8_Witness ==
    /\ BySpFailed(calls)
    /\ parts # {}
    /\ pc = "failed"

\* C9: on Linux the directory written as MATLAB_RUNTIME_DIR is the directory
\* the native installer was given as -destinationFolder.
C9_SameRuntimeDir ==
    (pc = "done" /\ system = "Linux") =>
        \A i \in DOMAIN calls :
            calls[i].tool = "install" =>
                Resolve(actScript[1].word[1].dir) = Resolve(calls[i].dir)

\* run() is inside the try block of lines 152-171, or about to run finally
InTryBlock == pc \in {"darwin_check_mount", "darwin_check_app", "darwin_installer",
                      "darwin_detach"}

C10_DetachState ==
    LET attaches == {i \in DOMAIN calls : IsAttach(calls[i])}
        detaches == {i \in DOMAIN calls : IsDetach(calls[i])}
    IN  /\ Cardinality(attaches) <= 1
        /\ Cardinality(detaches) <= 1
        /\ \A j \in detaches : \E i \in attaches : i < j
        /\ (attaches # {} /\ ~InTryBlock) => Cardinality(detaches) = 1
        /\ InTryBlock => attaches # {} /\ detaches = {}
        /\ \A k \in DOMAIN calls :
             calls[k].tool = "InstallForMacOSX" => \E i \in attaches : i < k /\ calls[i].ok

\* a step that invokes the bundled installer
C10_InstallerStep ==
    Appended("InstallForMacOSX") =>
        /\ mounted /\ appExists
        /\ \E i \in DOMAIN calls : IsAttach(calls[i]) /\ calls[i].ok

\* C10: on Darwin, once hdiutil attach has been tried, hdiutil detach is run
\* exactly once before install_matlab_runtime returns or raises, never before
\* the attach; the installer is run only after a successful attach with
\* the mount point and the installer binary both present.
C10_DetachOnce == [](C10_DetachState) /\ [][C10_InstallerStep]_vars

C10_Witness ==
    /\ pc = "failed"
    /\ err = "CalledProcessError"
    /\ \E i \in DOMAIN calls : IsAttach(calls[i]) /\ ~calls[i].ok
    /\ Cardinality({i \in DOMAIN calls : IsDetach(calls[i])}) = 1

====
